---------------------------- MODULE Spec2Model ----------------------------
(***************************************************************************)
(* A model of the D&D 5e spell scraper (src/main.py).                      *)
(*                                                                         *)
(* Python strings are modelled as sequences of one-character strings, so   *)
(* that startswith, in, split, strip, lower, capitalize, title, replace    *)
(* and re.sub are computed character by character, as the interpreter      *)
(* computes them.  A call that can raise returns a record                  *)
(* [exc |-> "none" | "IndexError", val |-> ...].                           *)
(***************************************************************************)
EXTENDS Integers, Sequences, FiniteSets

VARIABLES
  pc,             \* position of the program / of the function under check
  argc,           \* len(sys.argv) - 1
  usage_printed,  \* the usage message was printed
  main_invoked,   \* main(args) was called
  file_opened,    \* main opened the JSON file
  spell_names,    \* iteration order of flattened_spells (a set) in scrape_spells
  i,              \* loop index of scrape_spells (enumerate)
  spell_data,     \* scrape_spells' local: result of the last scrape_spell call
  scraped_spells, \* the accumulation list of scrape_spells / main
  pages,          \* what the site served for each processed item, in order
  files,          \* the files written into output_dir: name and text
  sleeps,         \* loop indexes after which time.sleep was called, in order
  combined,       \* what create_combined_file wrote
  summary,        \* main's final message
  line,           \* argument of _format
  formatted,      \* result of _format(line)
  text,           \* content_element.get_text() handed to _clean_content
  content         \* result of _clean_content

vars == <<pc, argc, usage_printed, main_invoked, file_opened, spell_names, i,
          spell_data, scraped_spells, pages, files, sleeps, combined, summary,
          line, formatted, text, content>>

-----------------------------------------------------------------------------
(* Bounds of the model *)

\* Number of pieces appended to the head of a line given to _format.
MaxTail == 3

\* Number of lines of a content region given to _clean_content.
MaxLines == 3

\* Number of ids listed for one class in the JSON document.
MaxPerClass == 2

\* Number of command-line arguments.
MaxArgs == 2

-----------------------------------------------------------------------------
(* Python str primitives on character sequences *)

UPPER == <<"A", "B", "C", "D", "E", "F", "G", "H", "I", "J", "K", "L", "M", "N", "O", "P", "Q", "R", "S", "T", "U", "V", "W", "X", "Y", "Z">>
LOWER == <<"a", "b", "c", "d", "e", "f", "g", "h", "i", "j", "k", "l", "m", "n", "o", "p", "q", "r", "s", "t", "u", "v", "w", "x", "y", "z">>

\* str.isspace for the characters that occur
WHITESPACE == {" ", "\t", "\n", "\r"}

\* the case mappings of the letters, as tables
lower_of == [c \in {UPPER[k] : k \in 1..26} |-> LOWER[CHOOSE k \in 1..26 : UPPER[k] = c]]
upper_of == [c \in {LOWER[k] : k \in 1..26} |-> UPPER[CHOOSE k \in 1..26 : LOWER[k] = c]]

IsUpper(c) == c \in DOMAIN lower_of
IsLower(c) == c \in DOMAIN upper_of
IsCased(c) == IsUpper(c) \/ IsLower(c)

ToLower(c) == IF IsUpper(c) THEN lower_of[c] ELSE c
ToUpper(c) == IF IsLower(c) THEN upper_of[c] ELSE c

\* str.lower()
lower(s) == [k \in 1..Len(s) |-> ToLower(s[k])]

\* str.capitalize(): first character upper-cased, the rest lower-cased
capitalize(s) == [k \in 1..Len(s) |-> IF k = 1 THEN ToUpper(s[k]) ELSE ToLower(s[k])]

\* str.title(): a cased character is upper-cased after an uncased one (or at
\* the start) and lower-cased after a cased one
title(s) ==
  [k \in 1..Len(s) |->
     IF k > 1 /\ IsCased(s[k - 1]) THEN ToLower(s[k]) ELSE ToUpper(s[k])]

\* str.replace(old, new) for single characters
replace(s, old, new) == [k \in 1..Len(s) |-> IF s[k] = old THEN new ELSE s[k]]

\* str.startswith(prefix)
startswith(s, prefix) ==
  Len(prefix) <= Len(s) /\ SubSeq(s, 1, Len(prefix)) = prefix

\* str.find(sub) + 1: the position of the first occurrence of sub in s; 0 if none
find(s, sub) ==
  LET hits == {k \in 1..(Len(s) - Len(sub) + 1) : SubSeq(s, k, k + Len(sub) - 1) = sub}
  IN IF hits = {} THEN 0 ELSE CHOOSE k \in hits : \A j \in hits : k <= j

\* sub in s
contains(s, sub) == find(s, sub) # 0

\* str.strip()
RECURSIVE lstrip(_)
lstrip(s) ==
  IF s # <<>> /\ Head(s) \in WHITESPACE THEN lstrip(Tail(s)) ELSE s

RECURSIVE rstrip(_)
rstrip(s) ==
  IF s # <<>> /\ s[Len(s)] \in WHITESPACE
  THEN rstrip(SubSeq(s, 1, Len(s) - 1)) ELSE s

strip(s) == rstrip(lstrip(s))

\* str.split(sep): every occurrence of sep separates, empty pieces are kept
RECURSIVE split(_, _)
split_at(s, sep, k) ==
  IF k = 0 THEN <<s>>
  ELSE <<SubSeq(s, 1, k - 1)>> \o split(SubSeq(s, k + Len(sep), Len(s)), sep)

split(s, sep) == split_at(s, sep, find(s, sep))

\* str.split(): runs of whitespace separate, empty pieces are dropped
RECURSIVE wordEnd(_)
wordEnd(s) ==
  IF s = <<>> \/ Head(s) \in WHITESPACE THEN 0 ELSE 1 + wordEnd(Tail(s))

RECURSIVE split_ws(_)
split_ws(s) ==
  LET t == lstrip(s)
      n == wordEnd(t)
  IN IF t = <<>> THEN <<>>
     ELSE <<SubSeq(t, 1, n)>> \o split_ws(SubSeq(t, n + 1, Len(t)))

\* "".join(parts)
RECURSIVE join(_)
join(parts) == IF parts = <<>> THEN <<>> ELSE Head(parts) \o join(Tail(parts))

\* outcome of a call: a returned value or a raised exception
Return(v) == [exc |-> "none", val |-> v]
Raise(e) == [exc |-> e, val |-> <<>>]

\* seq[k] of a Python list (0-based), raising IndexError out of range
index(parts, k) ==
  IF k < Len(parts) THEN Return(parts[k + 1]) ELSE Raise("IndexError")

-----------------------------------------------------------------------------
(* Module constants *)

SPELL_SCHOOLS ==
  << <<"A", "b", "j", "u", "r", "a", "t", "i", "o", "n">>,
     <<"C", "o", "n", "j", "u", "r", "a", "t", "i", "o", "n">>,
     <<"D", "i", "v", "i", "n", "a", "t", "i", "o", "n">>,
     <<"E", "n", "c", "h", "a", "n", "t", "m", "e", "n", "t">>,
     <<"E", "v", "o", "c", "a", "t", "i", "o", "n">>,
     <<"I", "l", "l", "u", "s", "i", "o", "n">>,
     <<"N", "e", "c", "r", "o", "m", "a", "n", "c", "y">>,
     <<"T", "r", "a", "n", "s", "m", "u", "t", "a", "t", "i", "o", "n">> >>

NL == <<"\n">>

-----------------------------------------------------------------------------
(* DnDSpellScraper._format *)

\* any([x.lower() in line.lower() for x in SPELL_SCHOOLS])
mentions_school(l) ==
  LET low == lower(l)
  IN \E k \in 1..Len(SPELL_SCHOOLS) : contains(low, lower(SPELL_SCHOOLS[k]))

\* f"{label}{line.split(':')[1].strip()}{tail}"
\* (an IndexError raised by the subscript propagates out of _format)
labelled_field(label, field, tail) ==
  IF field.exc # "none" THEN field
  ELSE Return(label \o strip(field.val) \o tail)

labelled(label, l, tail) ==
  labelled_field(label, index(split(l, <<":">>), 1), tail)

\* the "level" branch of the school rule
spell_lines_of(level, school) ==
  IF level.exc # "none" THEN level
  ELSE IF school.exc # "none" THEN school
  ELSE Return(<<"*", "*", "T", "y", "p", "e", ":", "*", "*", " ", "S", "p", "e", "l", "l">> \o NL
              \o <<"*", "*", "L", "e", "v", "e", "l", ":", "*", "*", " ">> \o strip(level.val) \o NL
              \o <<"*", "*", "S", "c", "h", "o", "o", "l", ":", "*", "*", " ">> \o capitalize(strip(school.val)) \o NL \o NL)

spell_lines(l) ==
  spell_lines_of(index(split(l, <<" ">>), 0), index(split(l, <<" ">>), 1))

\* the other branch of the school rule
cantrip_lines_of(school) ==
  IF school.exc # "none" THEN school
  ELSE Return(<<"*", "*", "T", "y", "p", "e", ":", "*", "*", " ", "C", "a", "n", "t", "r", "i", "p">> \o NL
              \o <<"*", "*", "S", "c", "h", "o", "o", "l", ":", "*", "*", " ">> \o capitalize(strip(school.val)) \o NL \o NL)

cantrip_lines(l) == cantrip_lines_of(index(split_ws(l), 0))

\* f"\n{label}{line.split(marker)[1].strip()}\n"
after_marker_rest(label, rest) ==
  IF rest.exc # "none" THEN rest
  ELSE Return(NL \o label \o strip(rest.val) \o NL)

after_marker(label, l, marker) ==
  after_marker_rest(label, index(split(l, marker), 1))

\* a variant of _format that tests the Components prefix before the school names
_format_components_first(l) ==
  IF startswith(l, <<"S", "o", "u", "r", "c", "e">>)
    THEN labelled(<<"*", "*", "S", "o", "u", "r", "c", "e", ":", "*", "*", " ">>, l, NL \o NL)
  ELSE IF startswith(l, <<"C", "o", "m", "p", "o", "n", "e", "n", "t", "s">>)
    THEN labelled(<<"*", "*", "C", "o", "m", "p", "o", "n", "e", "n", "t", "s", ":", "*", "*", " ">>, l, NL)
  ELSE IF mentions_school(l)
    THEN IF contains(l, <<"l", "e", "v", "e", "l">>) THEN spell_lines(l) ELSE cantrip_lines(l)
  ELSE IF startswith(l, <<"C", "a", "s", "t", "i", "n", "g", " ", "T", "i", "m", "e">>)
    THEN labelled(<<"*", "*", "C", "a", "s", "t", "i", "n", "g", " ", "T", "i", "m", "e", ":", "*", "*", " ">>, l, NL)
  ELSE IF startswith(l, <<"R", "a", "n", "g", "e">>)
    THEN labelled(<<"*", "*", "R", "a", "n", "g", "e", ":", "*", "*", " ">>, l, NL)
  ELSE IF startswith(l, <<"D", "u", "r", "a", "t", "i", "o", "n">>)
    THEN labelled(<<"*", "*", "D", "u", "r", "a", "t", "i", "o", "n", ":", "*", "*", " ">>, l, NL \o NL)
  ELSE IF contains(l, <<"A", "t", " ", "H", "i", "g", "h", "e", "r", " ", "L", "e", "v", "e", "l", "s">>)
    THEN after_marker(<<"*", "*", "A", "t", " ", "H", "i", "g", "h", "e", "r", " ", "L", "e", "v", "e", "l", "s", ":", "*", "*", " ">>, l, <<"A", "t", " ", "H", "i", "g", "h", "e", "r", " ", "L", "e", "v", "e", "l", "s", ".">>)
  ELSE IF contains(l, <<"S", "p", "e", "l", "l", " ", "L", "i", "s", "t", "s">>)
    THEN after_marker(<<"*", "*", "S", "p", "e", "l", "l", " ", "L", "i", "s", "t", "s", ":", "*", "*", " ">>, l, <<"S", "p", "e", "l", "l", " ", "L", "i", "s", "t", "s", ".">>)
  ELSE Return(l \o NL \o NL)

_format(l) ==
  IF startswith(l, <<"S", "o", "u", "r", "c", "e">>)
    THEN labelled(<<"*", "*", "S", "o", "u", "r", "c", "e", ":", "*", "*", " ">>, l, NL \o NL)
  ELSE IF mentions_school(l)
    THEN IF contains(l, <<"l", "e", "v", "e", "l">>) THEN spell_lines(l) ELSE cantrip_lines(l)
  ELSE IF startswith(l, <<"C", "a", "s", "t", "i", "n", "g", " ", "T", "i", "m", "e">>)
    THEN labelled(<<"*", "*", "C", "a", "s", "t", "i", "n", "g", " ", "T", "i", "m", "e", ":", "*", "*", " ">>, l, NL)
  ELSE IF startswith(l, <<"R", "a", "n", "g", "e">>)
    THEN labelled(<<"*", "*", "R", "a", "n", "g", "e", ":", "*", "*", " ">>, l, NL)
  ELSE IF startswith(l, <<"C", "o", "m", "p", "o", "n", "e", "n", "t", "s">>)
    THEN labelled(<<"*", "*", "C", "o", "m", "p", "o", "n", "e", "n", "t", "s", ":", "*", "*", " ">>, l, NL)
  ELSE IF startswith(l, <<"D", "u", "r", "a", "t", "i", "o", "n">>)
    THEN labelled(<<"*", "*", "D", "u", "r", "a", "t", "i", "o", "n", ":", "*", "*", " ">>, l, NL \o NL)
  ELSE IF contains(l, <<"A", "t", " ", "H", "i", "g", "h", "e", "r", " ", "L", "e", "v", "e", "l", "s">>)
    THEN after_marker(<<"*", "*", "A", "t", " ", "H", "i", "g", "h", "e", "r", " ", "L", "e", "v", "e", "l", "s", ":", "*", "*", " ">>, l, <<"A", "t", " ", "H", "i", "g", "h", "e", "r", " ", "L", "e", "v", "e", "l", "s", ".">>)
  ELSE IF contains(l, <<"S", "p", "e", "l", "l", " ", "L", "i", "s", "t", "s">>)
    THEN after_marker(<<"*", "*", "S", "p", "e", "l", "l", " ", "L", "i", "s", "t", "s", ":", "*", "*", " ">>, l, <<"S", "p", "e", "l", "l", " ", "L", "i", "s", "t", "s", ".">>)
  ELSE Return(l \o NL \o NL)

-----------------------------------------------------------------------------
(* DnDSpellScraper._clean_content *)

\* the loop over lines: strip, drop empty lines, _format the others; the first
\* exception raised by _format leaves the loop
\* cleaned_lines.append(fragment), then the rest of the loop
append_fragment(fragment, rest) ==
  IF fragment.exc # "none" THEN fragment
  ELSE IF rest.exc # "none" THEN rest
  ELSE Return(<<fragment.val>> \o rest.val)

RECURSIVE format_lines(_)
format_lines(ls) ==
  IF ls = <<>> THEN Return(<<>>)
  ELSE IF strip(Head(ls)) = <<>> THEN format_lines(Tail(ls))
  ELSE append_fragment(_format(strip(Head(ls))), format_lines(Tail(ls)))

\* number of newline characters s begins with
RECURSIVE newline_run(_)
newline_run(s) ==
  IF s # <<>> /\ Head(s) = "\n" THEN 1 + newline_run(Tail(s)) ELSE 0

\* a variant of re_sub_newlines with the pattern \n{4,}
RECURSIVE re_sub_newlines_4(_)
re_sub_newlines_4(s) ==
  LET k == find(s, NL \o NL \o NL \o NL)
      n == newline_run(SubSeq(s, k, Len(s)))
  IN IF k = 0 THEN s
     ELSE SubSeq(s, 1, k - 1) \o NL \o NL
          \o re_sub_newlines_4(SubSeq(s, k + n, Len(s)))

\* re.sub(r"\n{3,}", "\n\n", s): the leftmost run of three or more newlines is
\* matched greedily (the whole run) and replaced by two, and the search goes on
\* after it
RECURSIVE re_sub_newlines(_)
re_sub_newlines(s) ==
  LET k == find(s, NL \o NL \o NL)
      n == newline_run(SubSeq(s, k, Len(s)))
  IN IF k = 0 THEN s
     ELSE SubSeq(s, 1, k - 1) \o NL \o NL
          \o re_sub_newlines(SubSeq(s, k + n, Len(s)))

\* "".join(cleaned_lines) and the re.sub
join_and_collapse(cleaned_lines) ==
  IF cleaned_lines.exc # "none" THEN cleaned_lines
  ELSE Return(re_sub_newlines(join(cleaned_lines.val)))

_clean_content(t) == join_and_collapse(format_lines(split(t, NL)))

-----------------------------------------------------------------------------
(* DnDSpellScraper.scrape_spell *)

base_url == <<"h", "t", "t", "p", "s", ":", "/", "/", "d", "n", "d", "5", "e", ".", "w", "i", "k", "i", "d", "o", "t", ".", "c", "o", "m">>

NoData == [title |-> <<>>, content |-> <<>>, url |-> <<>>]

\* the return value: a dict (found) or None, with the message printed
Some(d, msg) == [found |-> TRUE, data |-> d, log |-> msg]
None(msg) == [found |-> FALSE, data |-> NoData, log |-> msg]

\* A page is what session.get and BeautifulSoup yield for one url:
\*   fetch_ok     get and raise_for_status raised no RequestException
\*   has_title    soup.find("div", class_="page-title page-header") found a div
\*   title        its text
\*   has_content  soup.find("div", id="page-content") found a div
\*   text         its get_text(), script and style elements removed

\* the except clauses: an exception of the extraction gives None
caught(r, d, msg) ==
  IF r.exc # "none" THEN None(msg)
  ELSE Some([title |-> d.title, content |-> r.val, url |-> d.url], msg)

\* a variant of scrape_spell that gives up when the title div is missing
scrape_spell_strict(spell_name, page) ==
  IF ~page.fetch_ok THEN None("Error fetching")
  ELSE IF ~page.has_title THEN None("Error: no title")
  ELSE IF ~page.has_content THEN None("Error: no content")
  ELSE caught(_clean_content(page.text),
              [title |-> strip(page.title),
               url |-> base_url \o <<"/", "s", "p", "e", "l", "l", ":">> \o spell_name], "")

scrape_spell(spell_name, page) ==
  LET url == base_url \o <<"/", "s", "p", "e", "l", "l", ":">> \o spell_name
      title_ == IF ~page.has_title
                THEN title(replace(spell_name, "-", " "))
                ELSE strip(page.title)
      warned == IF page.has_title THEN "" ELSE "Warning: no title"
  IN IF ~page.fetch_ok THEN None("Error fetching")
     ELSE IF ~page.has_content THEN None("Error: no content")
     ELSE caught(_clean_content(page.text),
                 [title |-> title_, url |-> url], warned)

-----------------------------------------------------------------------------
(* Inputs *)

SeqsUpTo(S, n) == UNION {[1..k -> S] : k \in 0..n}

\* lines for _format: a head followed by up to MaxTail pieces, non-empty and
\* trimmed as _clean_content passes them
Heads ==
  { <<>>, <<"S", "o", "u", "r", "c", "e">>, <<"C", "a", "s", "t", "i", "n", "g", " ", "T", "i", "m", "e">>, <<"R", "a", "n", "g", "e">>, <<"C", "o", "m", "p", "o", "n", "e", "n", "t", "s">>,
    <<"D", "u", "r", "a", "t", "i", "o", "n">>, <<"A", "t", " ", "H", "i", "g", "h", "e", "r", " ", "L", "e", "v", "e", "l", "s">>, <<"A", "t", " ", "H", "i", "g", "h", "e", "r", " ", "L", "e", "v", "e", "l", "s", ".">>,
    <<"S", "p", "e", "l", "l", " ", "L", "i", "s", "t", "s">>, <<"S", "p", "e", "l", "l", " ", "L", "i", "s", "t", "s", ".">>, <<"3", "r", "d", "-", "l", "e", "v", "e", "l">>, <<"E", "v", "o", "c", "a", "t", "i", "o", "n">> }

TailPieces == { <<":">>, <<" ">>, <<"\t">>, <<"x">>, <<"e", "v", "o", "c", "a", "t", "i", "o", "n">> }

Lines ==
  { l \in { h \o join(t) : h \in Heads, t \in SeqsUpTo(TailPieces, MaxTail) } :
      l # <<>> /\ strip(l) = l }

\* content regions for _clean_content: up to MaxLines raw lines joined by "\n"
RawLines ==
  { <<>>, <<" ", " ">>, <<"x">>, <<" ", "D", "u", "r", "a", "t", "i", "o", "n", ":", " ", "x">>, <<"A", "t", " ", "H", "i", "g", "h", "e", "r", " ", "L", "e", "v", "e", "l", "s", ".", " ", "x">>,
    <<"R", "a", "n", "g", "e", ":", " ", "x", "\r">>, <<"E", "v", "o", "c", "a", "t", "i", "o", "n", " ", "c", "a", "n", "t", "r", "i", "p">>, <<"S", "o", "u", "r", "c", "e">> }

RECURSIVE join_nl(_)
join_nl(ls) ==
  IF ls = <<>> THEN <<>>
  ELSE IF Len(ls) = 1 THEN ls[1]
  ELSE Head(ls) \o NL \o join_nl(Tail(ls))

Texts == { join_nl(ls) : ls \in SeqsUpTo(RawLines, MaxLines) }

\* the JSON document: class name -> list of spell ids
Ids == { <<"f", "i", "r", "e", "-", "b", "o", "l", "t">>, <<"w", "i", "s", "h">>, <<"s", "h", "i", "e", "l", "d">> }
Classes == { "wizard", "cleric" }
Documents == [Classes -> SeqsUpTo(Ids, MaxPerClass)]

\* what the site can serve for one id
PageTexts ==
  { <<"\n", "E", "v", "o", "c", "a", "t", "i", "o", "n", " ", "c", "a", "n", "t", "r", "i", "p", "\n", "R", "a", "n", "g", "e", ":", " ", "x", "\n", "\n", " ", "x", " ", "\n">>,
    <<"x", "\n", "A", "t", " ", "H", "i", "g", "h", "e", "r", " ", "L", "e", "v", "e", "l", "s", ".", " ", "x">>,
    <<"x", "\n", "S", "o", "u", "r", "c", "e", "\n", "x">> }

Pages ==
  { [fetch_ok |-> FALSE, has_title |-> FALSE, title |-> <<>>,
     has_content |-> FALSE, text |-> <<>>] }
  \cup
  { [fetch_ok |-> TRUE, has_title |-> ht,
     title |-> IF ht THEN <<" ", "S", "p", "e", "l", "l", " ", "T", "i", "t", "l", "e", "\n">> ELSE <<>>,
     has_content |-> FALSE, text |-> <<>>] : ht \in BOOLEAN }
  \cup
  { [fetch_ok |-> TRUE, has_title |-> ht,
     title |-> IF ht THEN <<" ", "S", "p", "e", "l", "l", " ", "T", "i", "t", "l", "e", "\n">> ELSE <<>>,
     has_content |-> TRUE, text |-> t] : ht \in BOOLEAN, t \in PageTexts }

-----------------------------------------------------------------------------
(* flatten_spells_list *)

Range_(f) == { f[k] : k \in DOMAIN f }

flatten_spells_list(data) == UNION { Range_(data[c]) : c \in DOMAIN data }

\* the orders in which a set can be iterated
Orders(S) ==
  { s \in [1..Cardinality(S) -> S] : \A a, b \in DOMAIN s : a # b => s[a] # s[b] }

\* main's flattened_spells, of which spell_names is the iteration order
flattened_spells == Range_(spell_names)

-----------------------------------------------------------------------------
(* The program: the __main__ guard, main, scrape_spells *)

\* f"{spell_name}.md"
filename(spell_name) == spell_name \o <<".", "m", "d">>

\* what scrape_spells writes into the item's file
file_text(d) ==
  <<"#", " ">> \o d.title \o NL \o NL
  \o <<"*", "*", "S", "o", "u", "r", "c", "e", ":", "*", "*", " ">> \o d.url \o NL \o NL
  \o d.content

NoSummary == [kind |-> "none", n |-> 0, m |-> 0]
NotCombined == [written |-> FALSE, spells |-> <<>>]

function_vars == <<line, formatted, text, content>>
program_vars == <<pc, argc, usage_printed, main_invoked, file_opened,
                  spell_names, i, spell_data, scraped_spells, pages, files, sleeps,
                  combined, summary>>

ProgramIdle ==
  /\ argc = 0
  /\ usage_printed = FALSE
  /\ main_invoked = FALSE
  /\ file_opened = FALSE
  /\ spell_names = <<>>
  /\ i = 0
  /\ spell_data = None("")
  /\ scraped_spells = <<>>
  /\ pages = <<>>
  /\ files = {}
  /\ sleeps = <<>>
  /\ combined = NotCombined
  /\ summary = NoSummary

Init ==
  /\ pc = "start"
  /\ argc \in 0..MaxArgs
  /\ usage_printed = FALSE
  /\ main_invoked = FALSE
  /\ file_opened = FALSE
  /\ spell_names = <<>>
  /\ i = 0
  /\ spell_data = None("")
  /\ scraped_spells = <<>>
  /\ pages = <<>>
  /\ files = {}
  /\ sleeps = <<>>
  /\ combined = NotCombined
  /\ summary = NoSummary
  /\ line = <<>>
  /\ formatted = Return(<<>>)
  /\ text = <<>>
  /\ content = Return(<<>>)

\* if __name__ == "__main__": the usage message, then main(sys.argv[1:])
Guard ==
  /\ pc = "start"
  /\ usage_printed' = (argc + 1 = 1 \/ argc + 1 > 2)
  /\ main_invoked' = TRUE
  /\ pc' = "main"
  /\ UNCHANGED <<argc, file_opened, spell_names, i, spell_data, scraped_spells,
                 pages, files, sleeps, combined, summary, function_vars>>

\* main up to the call of scrape_spells, and scrape_spells up to its loop
Main ==
  /\ pc = "main"
  /\ IF argc = 0
     THEN \* args[0] raises IndexError, which nothing catches
          /\ pc' = "crashed"
          /\ UNCHANGED <<file_opened, spell_names>>
     ELSE \E raw_spells \in Documents :
            \E order \in Orders(flatten_spells_list(raw_spells)) :
              /\ file_opened' = TRUE
              /\ spell_names' = order
              /\ pc' = IF order = <<>> THEN "report" ELSE "scrape"
  /\ UNCHANGED <<argc, usage_printed, main_invoked, i, spell_data,
                 scraped_spells, pages, files, sleeps, combined, summary, function_vars>>

\* a variant of ScrapeItem that leaves the loop at the first item that fails
ScrapeItem_break ==
  /\ pc = "scrape"
  /\ \E page \in Pages :
       /\ spell_data' = scrape_spell(spell_names[i + 1], page)
       /\ pages' = Append(pages, page)
  /\ files' = IF spell_data'.found
              THEN {f \in files : f.name # filename(spell_names[i + 1])}
                   \cup {[name |-> filename(spell_names[i + 1]),
                          text |-> file_text(spell_data'.data)]}
              ELSE files
  /\ scraped_spells' = IF spell_data'.found
                       THEN Append(scraped_spells, spell_data'.data)
                       ELSE scraped_spells
  /\ pc' = IF spell_data'.found THEN "pace" ELSE "report"
  /\ UNCHANGED <<argc, usage_printed, main_invoked, file_opened, spell_names,
                 i, sleeps, combined, summary, function_vars>>

\* one iteration of the loop of scrape_spells, up to the rate limiting
ScrapeItem ==
  /\ pc = "scrape"
  /\ \E page \in Pages :
       /\ spell_data' = scrape_spell(spell_names[i + 1], page)
       /\ pages' = Append(pages, page)
  /\ files' = IF spell_data'.found
              THEN {f \in files : f.name # filename(spell_names[i + 1])}
                   \cup {[name |-> filename(spell_names[i + 1]),
                          text |-> file_text(spell_data'.data)]}
              ELSE files
  /\ scraped_spells' = IF spell_data'.found
                       THEN Append(scraped_spells, spell_data'.data)
                       ELSE scraped_spells
  /\ pc' = "pace"
  /\ UNCHANGED <<argc, usage_printed, main_invoked, file_opened, spell_names,
                 i, sleeps, combined, summary, function_vars>>

\* a variant of Pace that sleeps after every item (i < len(spell_names))
Pace_every ==
  /\ pc = "pace"
  /\ sleeps' = IF i < Len(spell_names) THEN Append(sleeps, i) ELSE sleeps
  /\ i' = i + 1
  /\ pc' = IF i + 1 < Len(spell_names) THEN "scrape" ELSE "report"
  /\ UNCHANGED <<argc, usage_printed, main_invoked, file_opened, spell_names,
                 spell_data, scraped_spells, pages, files, combined, summary,
                 function_vars>>

\* the rate limiting at the end of the iteration, and the loop's next step
Pace ==
  /\ pc = "pace"
  /\ sleeps' = IF i < Len(spell_names) - 1 THEN Append(sleeps, i) ELSE sleeps
  /\ i' = i + 1
  /\ pc' = IF i + 1 < Len(spell_names) THEN "scrape" ELSE "report"
  /\ UNCHANGED <<argc, usage_printed, main_invoked, file_opened, spell_names,
                 spell_data, scraped_spells, pages, files, combined, summary,
                 function_vars>>

\* a variant of Report that writes the combined file whatever was scraped
Report_unconditional ==
  /\ pc = "report"
  /\ combined' = [written |-> TRUE, spells |-> scraped_spells]
  /\ summary' = IF scraped_spells # <<>>
                THEN [kind |-> "scraped", n |-> Len(scraped_spells),
                      m |-> Cardinality(flattened_spells)]
                ELSE [kind |-> "nothing", n |-> 0, m |-> 0]
  /\ pc' = "done"
  /\ UNCHANGED <<argc, usage_printed, main_invoked, file_opened, spell_names,
                 i, spell_data, scraped_spells, pages, files, sleeps, function_vars>>

\* main after scrape_spells returned
Report ==
  /\ pc = "report"
  /\ IF scraped_spells # <<>>
     THEN /\ combined' = [written |-> TRUE, spells |-> scraped_spells]
          /\ summary' = [kind |-> "scraped", n |-> Len(scraped_spells),
                         m |-> Cardinality(flattened_spells)]
     ELSE /\ combined' = combined
          /\ summary' = [kind |-> "nothing", n |-> 0, m |-> 0]
  /\ pc' = "done"
  /\ UNCHANGED <<argc, usage_printed, main_invoked, file_opened, spell_names,
                 i, spell_data, scraped_spells, pages, files, sleeps, function_vars>>

Next == Guard \/ Main \/ ScrapeItem \/ Pace \/ Report

Spec == Init /\ [][Next]_vars

-----------------------------------------------------------------------------
(* _format applied to every line of Lines *)

InitFormat ==
  /\ pc = "format"
  /\ line \in Lines
  /\ formatted = Return(<<>>)
  /\ text = <<>>
  /\ content = Return(<<>>)
  /\ ProgramIdle

Format ==
  /\ pc = "format"
  /\ formatted' = _format(line)
  /\ pc' = "formatted"
  /\ UNCHANGED <<argc, usage_printed, main_invoked, file_opened, spell_names,
                 i, spell_data, scraped_spells, pages, files, sleeps, combined,
                 summary, line, text, content>>

NextFormat == Format

SpecFormat == InitFormat /\ [][NextFormat]_vars

-----------------------------------------------------------------------------
(* _clean_content applied to every text of Texts *)

InitClean ==
  /\ pc = "clean"
  /\ text \in Texts
  /\ content = Return(<<>>)
  /\ line = <<>>
  /\ formatted = Return(<<>>)
  /\ ProgramIdle

CleanContent ==
  /\ pc = "clean"
  /\ content' = _clean_content(text)
  /\ pc' = "cleaned"
  /\ UNCHANGED <<argc, usage_printed, main_invoked, file_opened, spell_names,
                 i, spell_data, scraped_spells, pages, files, sleeps, combined,
                 summary, line, formatted, text>>

NextClean == CleanContent

SpecClean == InitClean /\ [][NextClean]_vars

-----------------------------------------------------------------------------
(* Properties *)

\* whether the extraction of each content text raises
ExtractionRaises == [t \in PageTexts |-> _clean_content(t).exc # "none"]

\* an item succeeds when its page is fetched, has the content div, and the
\* extraction of the content raises nothing
Succeeds(page) ==
  page.fetch_ok /\ page.has_content /\ ~ExtractionRaises[page.text]

\* the records of the successful items among the first n processed, in order
RECURSIVE RecordsOfSuccessful(_)
RecordsOfSuccessful(n) ==
  IF n = 0 THEN <<>>
  ELSE IF Succeeds(pages[n])
       THEN Append(RecordsOfSuccessful(n - 1),
                   scrape_spell(spell_names[n], pages[n]).data)
       ELSE RecordsOfSuccessful(n - 1)

\* C1: whatever the outcome of each item (fetch failure, missing content,
\* exception during extraction, success), the accumulated list is exactly the
\* records of the successful items processed so far, in input order, and the
\* files written are theirs; a failure never ends the run, and when the loop
\* is over every id has been processed.
C1_FailureIsolation ==
  /\ Len(pages) <= Len(spell_names)
  /\ scraped_spells = RecordsOfSuccessful(Len(pages))
  /\ {f.name : f \in files}
       = {filename(spell_names[k]) : k \in {j \in 1..Len(pages) : Succeeds(pages[j])}}
  /\ (pc = "crashed" => argc = 0 /\ pages = <<>>)
  /\ (pc \in {"report", "done"} => Len(pages) = Len(spell_names))

\* C1 witness: a finished run of three items in which the first could not be
\* fetched, the second raised during extraction and the third succeeded.
C1_Witness ==
  /\ pc = "done"
  /\ Len(spell_names) = 3
  /\ ~pages[1].fetch_ok
  /\ pages[2].fetch_ok /\ pages[2].has_content
  /\ ExtractionRaises[pages[2].text]
  /\ Succeeds(pages[3])
  /\ Len(scraped_spells) = 1

\* C2: the k-th pause follows item k (0-based k - 1) and never the final item;
\* before item i is scraped exactly i pauses have happened; when the loop over
\* N >= 1 items is over there have been exactly N - 1 pauses.
C2_Pacing ==
  LET N == Len(spell_names)
  IN /\ \A k \in 1..Len(sleeps) : sleeps[k] = k - 1 /\ sleeps[k] < N - 1
     /\ (pc = "scrape" => Len(sleeps) = i)
     /\ (pc \in {"report", "done"} /\ N >= 1 => Len(sleeps) = N - 1)

\* C2 witness: a finished run of three items, the first two of which failed,
\* with two pauses.
C2_Witness ==
  /\ pc = "done"
  /\ Len(spell_names) = 3
  /\ ~Succeeds(pages[1]) /\ ~Succeeds(pages[2]) /\ Succeeds(pages[3])
  /\ sleeps = <<0, 1>>

\* C3 (as claimed): _format returns a fragment for every non-empty trimmed line.
C3_FormatTotal ==
  pc = "formatted" => formatted.exc = "none"

\* the labelled prefixes and the terminator of each rule
LabelledPrefixes ==
  { <<"S", "o", "u", "r", "c", "e">>, <<"C", "a", "s", "t", "i", "n", "g", " ", "T", "i", "m", "e">>, <<"R", "a", "n", "g", "e">>, <<"C", "o", "m", "p", "o", "n", "e", "n", "t", "s">>, <<"D", "u", "r", "a", "t", "i", "o", "n">> }

BoldLabel(prefix) == <<"*", "*">> \o prefix \o <<":", "*", "*", " ">>

\* the text after the first colon of l (l contains a colon)
AfterFirstColon(l) == SubSeq(l, find(l, <<":">>) + 1, Len(l))

\* C4 (as claimed): for a line that begins with a labelled prefix, has a colon
\* and is formatted by that prefix's rule, the output contains the bold label
\* followed by exactly the text after the first colon, trimmed, further colons
\* and the text after them included.
C4_AfterFirstColon ==
  pc = "formatted" =>
    \A prefix \in LabelledPrefixes :
      ( /\ startswith(line, prefix)
        /\ contains(line, <<":">>)
        /\ (prefix = <<"S", "o", "u", "r", "c", "e">> \/ ~mentions_school(line)) )
      => /\ formatted.exc = "none"
         /\ contains(formatted.val,
                     BoldLabel(prefix) \o strip(AfterFirstColon(line)) \o NL)

\* C5 (as claimed): a line that does not begin with Source, mentions a school
\* and contains "level" yields Type Spell, Level <first token>, School <second
\* token, capitalized> and a blank line, the tokens being those of a split on
\* whitespace.
C5_WhitespaceTokens ==
  ( /\ pc = "formatted"
    /\ ~startswith(line, <<"S", "o", "u", "r", "c", "e">>)
    /\ mentions_school(line)
    /\ contains(line, <<"l", "e", "v", "e", "l">>)
    /\ Len(split_ws(line)) >= 2 )
  => formatted =
       Return(<<"*", "*", "T", "y", "p", "e", ":", "*", "*", " ", "S", "p", "e", "l", "l", "\n", "*", "*", "L", "e", "v", "e", "l", ":", "*", "*", " ">> \o split_ws(line)[1]
              \o <<"\n", "*", "*", "S", "c", "h", "o", "o", "l", ":", "*", "*", " ">> \o capitalize(split_ws(line)[2])
              \o NL \o NL)

\* C6: the content _clean_content returns has no run of three or more
\* newlines, and collapsing it again changes nothing.
C6_NoTripleNewline ==
  (pc = "cleaned" /\ content.exc = "none") =>
    /\ ~contains(content.val, NL \o NL \o NL)
    /\ re_sub_newlines(content.val) = content.val

\* C6 witness: a text whose fragments, joined, had a run of three newlines.
C6_Witness ==
  /\ pc = "cleaned"
  /\ content.exc = "none"
  /\ contains(join(format_lines(split(text, NL)).val), NL \o NL \o NL)
  /\ content.val # <<>>

\* C7: for a fetched page, a record is produced exactly when the content div
\* is there and extraction raises nothing, whether or not the title div is
\* there; without the title div the record's title is the id with hyphens
\* replaced by spaces, title-cased (fire-bolt gives Fire Bolt).
C7_DegradeOrFail ==
  pc = "pace" =>
    LET page == pages[i + 1]
        name == spell_names[i + 1]
    IN page.fetch_ok =>
         /\ (~page.has_content => ~spell_data.found)
         /\ spell_data.found = Succeeds(page)
         /\ (spell_data.found /\ ~page.has_title =>
               /\ spell_data.data.title = title(replace(name, "-", " "))
               /\ (name = <<"f", "i", "r", "e", "-", "b", "o", "l", "t">> =>
                     spell_data.data.title = <<"F", "i", "r", "e", " ", "B", "o", "l", "t">>))

\* C7 witness: fire-bolt served without a title div but with content.
C7_Witness ==
  /\ pc = "pace"
  /\ spell_names[i + 1] = <<"f", "i", "r", "e", "-", "b", "o", "l", "t">>
  /\ pages[i + 1].fetch_ok /\ ~pages[i + 1].has_title /\ pages[i + 1].has_content
  /\ spell_data.found
  /\ spell_data.data.title = <<"F", "i", "r", "e", " ", "B", "o", "l", "t">>

\* C8 (as claimed): started with no argument or more than one, the program
\* does not invoke main, opens no file and fetches no item.
C8_UsageExits ==
  argc # 1 => ~main_invoked /\ ~file_opened /\ pages = <<>>

\* number of successful items among the first n processed
RECURSIVE Successes(_)
Successes(n) ==
  IF n = 0 THEN 0 ELSE Successes(n - 1) + (IF Succeeds(pages[n]) THEN 1 ELSE 0)

\* C9: nothing is written or reported before the run is over; afterwards the
\* combined file is written iff some item succeeded; with none, the "nothing
\* scraped" message; otherwise the summary counts the successes out of the
\* distinct ids of the work list.
C9_CombinedOutput ==
  /\ (pc # "done" => ~combined.written /\ summary.kind = "none")
  /\ (pc = "done" =>
        /\ combined.written = (Successes(Len(pages)) >= 1)
        /\ (Successes(Len(pages)) = 0 => summary.kind = "nothing")
        /\ (Successes(Len(pages)) >= 1 =>
              /\ combined.spells = scraped_spells
              /\ summary = [kind |-> "scraped", n |-> Successes(Len(pages)),
                            m |-> Cardinality(Range_(spell_names))]))

\* C9 witness: a finished run in which one of three items succeeded.
C9_Witness ==
  /\ pc = "done"
  /\ combined.written
  /\ summary = [kind |-> "scraped", n |-> 1, m |-> 3]

\* the first rule of the priority order whose test the line passes
FirstRule(l) ==
  IF startswith(l, <<"S", "o", "u", "r", "c", "e">>) THEN "Source"
  ELSE IF \E k \in 1..Len(SPELL_SCHOOLS) :
            contains(lower(l), lower(SPELL_SCHOOLS[k])) THEN "School"
  ELSE IF startswith(l, <<"C", "a", "s", "t", "i", "n", "g", " ", "T", "i", "m", "e">>) THEN "Casting Time"
  ELSE IF startswith(l, <<"R", "a", "n", "g", "e">>) THEN "Range"
  ELSE IF startswith(l, <<"C", "o", "m", "p", "o", "n", "e", "n", "t", "s">>) THEN "Components"
  ELSE IF startswith(l, <<"D", "u", "r", "a", "t", "i", "o", "n">>) THEN "Duration"
  ELSE IF contains(l, <<"A", "t", " ", "H", "i", "g", "h", "e", "r", " ", "L", "e", "v", "e", "l", "s">>) THEN "At Higher Levels"
  ELSE IF contains(l, <<"S", "p", "e", "l", "l", " ", "L", "i", "s", "t", "s">>) THEN "Spell Lists"
  ELSE "default"

\* how the output of each rule begins
RuleOpening ==
  [ Source |-> <<"*", "*", "S", "o", "u", "r", "c", "e", ":", "*", "*", " ">>,
    School |-> <<"*", "*", "T", "y", "p", "e", ":", "*", "*", " ">>,
    CastingTime |-> <<"*", "*", "C", "a", "s", "t", "i", "n", "g", " ", "T", "i", "m", "e", ":", "*", "*", " ">>,
    Range |-> <<"*", "*", "R", "a", "n", "g", "e", ":", "*", "*", " ">>,
    Components |-> <<"*", "*", "C", "o", "m", "p", "o", "n", "e", "n", "t", "s", ":", "*", "*", " ">>,
    Duration |-> <<"*", "*", "D", "u", "r", "a", "t", "i", "o", "n", ":", "*", "*", " ">>,
    AtHigherLevels |-> <<"\n", "*", "*", "A", "t", " ", "H", "i", "g", "h", "e", "r", " ", "L", "e", "v", "e", "l", "s", ":", "*", "*", " ">>,
    SpellLists |-> <<"\n", "*", "*", "S", "p", "e", "l", "l", " ", "L", "i", "s", "t", "s", ":", "*", "*", " ">> ]

\* C10: the output is that of the first rule, in the order Source, school,
\* Casting Time, Range, Components, Duration, At Higher Levels, Spell Lists,
\* default, that the line matches: it begins with that rule's label (or is
\* the line itself for the default rule), and when it is an exception it is
\* that rule's.
C10_FirstMatchWins ==
  pc = "formatted" =>
    LET r == FirstRule(line)
        out == formatted.val
        ok == formatted.exc = "none"
    IN /\ (r = "Source" /\ ok => startswith(out, RuleOpening.Source))
       /\ (r = "School" /\ ok => startswith(out, RuleOpening.School))
       /\ (r = "Casting Time" /\ ok => startswith(out, RuleOpening.CastingTime))
       /\ (r = "Range" /\ ok => startswith(out, RuleOpening.Range))
       /\ (r = "Components" /\ ok => startswith(out, RuleOpening.Components))
       /\ (r = "Duration" /\ ok => startswith(out, RuleOpening.Duration))
       /\ (r = "At Higher Levels" /\ ok
             => startswith(out, RuleOpening.AtHigherLevels))
       /\ (r = "Spell Lists" /\ ok => startswith(out, RuleOpening.SpellLists))
       /\ (r = "default" => ok /\ out = line \o NL \o NL)
       /\ (r \in {"Source", "Casting Time", "Range", "Components", "Duration"}
             => (ok <=> contains(line, <<":">>)))
       /\ (r = "School"
             => (ok <=> (contains(line, <<"l", "e", "v", "e", "l">>) => contains(line, <<" ">>))))
       /\ (r = "At Higher Levels" => (ok <=> contains(line, <<"A", "t", " ", "H", "i", "g", "h", "e", "r", " ", "L", "e", "v", "e", "l", "s", ".">>)))
       /\ (r = "Spell Lists" => (ok <=> contains(line, <<"S", "p", "e", "l", "l", " ", "L", "i", "s", "t", "s", ".">>)))

\* C10 witness: a line that begins with Components, has a colon and mentions a
\* school, formatted as a cantrip line.
C10_Witness ==
  /\ pc = "formatted"
  /\ startswith(line, <<"C", "o", "m", "p", "o", "n", "e", "n", "t", "s">>)
  /\ contains(line, <<":">>)
  /\ contains(line, <<"e", "v", "o", "c", "a", "t", "i", "o", "n">>)
  /\ formatted.exc = "none"
  /\ startswith(formatted.val, <<"*", "*", "T", "y", "p", "e", ":", "*", "*", " ", "C", "a", "n", "t", "r", "i", "p">>)


=============================================================================
